---- MODULE Spec2Model ----
(***************************************************************************)
(* Daemon lifecycle manager of simple-commands-mcp                         *)
(* (src/src/processManager.ts) together with the tool executor's status    *)
(* and logs wrappers (toolExecutor.ts).                                    *)
(*                                                                         *)
(* The server is one single-threaded event loop: every action below is one *)
(* run-to-completion callback (a tool call up to its first await, the      *)
(* continuation after the await, a timer callback, a child-process event). *)
(* Time is counted in seconds; a timer holds the seconds left until it is   *)
(* due, and the clock does not pass a due timer of a running server.       *)
(***************************************************************************)
EXTENDS Integers, Sequences, FiniteSets, TLC

\* ------------------------------------------------------------------ bounds
\* spawn() calls in one run of the server
MaxSpawns == 2

\* ------------------------------------------------------- program constants
MAX_OUTPUT_LINES == 1000
LivenessWindow == 1
GraceDelay == 5
EscalationDelay == 5
DefaultLogLines == 50
StatusStdoutLines == 10
StatusStderrLines == 5

Names == {"a", "b"}
Procs == 1..MaxSpawns
NoProc == 0

\* ProcessState (types.ts)
STARTING == "starting"
RUNNING == "running"
STOPPED == "stopped"
FAILED == "failed"
ProcessState == {STARTING, RUNNING, STOPPED, FAILED}

VARIABLES
    serverUp,         \* the server process has not exited
    runningProcesses, \* the Map name -> RunningProcess (as the pid of the run), NoProc = absent
    run,              \* the RunningProcess objects reachable from the Map or a suspended call, by pid
    child,            \* the ChildProcess handles with their OS processes, by pid
    startTimers,      \* pending "await setTimeout(1000)" of startDaemon calls
    purgeTimers,      \* pending "setTimeout(() => delete(name), 5000)", with the run (by) that set it
    killTimers,       \* "setTimeout(SIGKILL, 5000)" set by cleanup()
    spawned,          \* number of spawn() calls so far
    killCalls,        \* the kill(signal) calls made by the last step, as [p, sig]
    ret,              \* what the last step returned to its caller (NoRet: nothing)
    buf,              \* one output buffer array taken alone (addToBuffer's first argument)
    bufMax,           \* the maxLines it is pushed with
    pushedLines,      \* every line passed to addToBuffer for that buffer so far, in order
    call,             \* one executeTool call taken alone: the tool called and the name it reaches
    received,         \* the raw chunks the 'data' listeners were given so far, as [stream, data]
    exec              \* what execAsync gave the last one-shot command

\* the buffer taken alone
bufVars == <<buf, bufMax, pushedLines>>

\* what the pure functions are followed on; the manager never touches it
pureVars == <<bufVars, call, received, exec>>

vars == <<serverUp, runningProcesses, run, child, startTimers, purgeTimers, killTimers,
          spawned, killCalls, ret, pureVars>>

\* ------------------------------------------------------------------ values
\* RunningProcess (types.ts); startTime is written once (line 66) and only read
\* for the uptime figure, it is not kept here
NoRun == [name |-> "", pid |-> NoProc, state |-> "", stdout |-> <<>>, stderr |-> <<>>]

\* name: the name the handle's listeners closed over
\* exit: "no" (running), "zero" / "nonzero" (exitCode set), "signal" (exitCode null, signalCode set)
\* listening: the 'exit' and 'error' listeners of lines 110-129 are attached
\* signals: the signals kill() has delivered to the process
NoChild == [name |-> "", alive |-> FALSE, exit |-> "no", listening |-> FALSE, signals |-> {}]

NoRet == [op |-> "none", name |-> "", success |-> FALSE, kind |-> "", pid |-> NoProc,
          state |-> "", out |-> <<>>, err |-> <<>>]

\* no registry key: the call reached no manager operation
NoKey == <<>>

NoCall == [daemon |-> <<>>, tool |-> "", toolName |-> <<>>, op |-> "none", key |-> NoKey]

\* error.code of a rejection that carries none
NoCode == "undefined"

\* what execAsync settles with: the { stdout, stderr } it resolves to, or the
\* error it rejects with (code, stdout, stderr, message)
Settled(how, code, stdout, stderr, message) ==
    [how |-> how, code |-> code, stdout |-> stdout, stderr |-> stderr, message |-> message]

NoExec == Settled("none", NoCode, <<>>, <<>>, <<>>)

Result(op, n, ok, kind, pid) ==
    [op |-> op, name |-> n, success |-> ok, kind |-> kind, pid |-> pid,
     state |-> "", out |-> <<>>, err |-> <<>>]

\* ------------------------------------------------------------- pure helpers
\* Array.prototype.slice(-k): -0 is 0, so slice(-0) is the whole array
SliceLast(s, k) ==
    IF k = 0 \/ k >= Len(s) THEN s ELSE SubSeq(s, Len(s) - k + 1, Len(s))

\* variant: on overflow the newest line is dropped instead of the oldest
addToBufferDropsNewest(b, line, max) ==
    LET grown == Append(b, line)
    IN  IF Len(grown) > max THEN SubSeq(grown, 1, Len(grown) - 1) ELSE grown

\* addToBuffer: push, then drop the oldest line when over maxLines
addToBuffer(buffer, line, maxLines) ==
    LET pushed == Append(buffer, line)
    IN  IF Len(pushed) > maxLines THEN Tail(pushed) ELSE pushed

\* child.exitCode !== null
exitCodeSet(c) == c.exit \in {"zero", "nonzero"}

\* child.killed: set by a kill() call that delivered its signal
killed(c) == c.signals # {}

\* variant: only an entry in state Running counts as present
hasRunningOnly(n) == runningProcesses[n] # NoProc /\ run[runningProcesses[n]].state = "running"

\* runningProcesses.has(name)
has(n) == runningProcesses[n] # NoProc

\* runningProcesses.delete(name) on a Map value
MapDelete(m, n) == [m EXCEPT ![n] = NoProc]

\* runningProcesses.clear()
MapClear(m) == [n \in DOMAIN m |-> NoProc]

\* --------------------------------------------------- unreachable objects
\* A RunningProcess that neither the Map nor a suspended startDaemon call holds
\* cannot be read or written by any later step. Of a ChildProcess whose process
\* has exited only killed and exitCode are read again, by the suspended
\* startDaemon call (line 93): events are over and kill() returns false. Such
\* slots are reset.
Held(p, reg, st) ==
    \/ \E n \in DOMAIN reg : reg[n] = p
    \/ \E t \in st : t.p = p

CollectRuns(r, reg, st) ==
    [p \in Procs |-> IF Held(p, reg, st) THEN r[p] ELSE NoRun]

CollectChildren(c, st) ==
    [p \in Procs |-> IF c[p].alive \/ (\E t \in st : t.p = p) THEN c[p] ELSE NoChild]

\* child.pid of a new process; a pid is not given again while a timer set by
\* its run is pending, so that the timer tells its run from a later one
FreePids ==
    {p \in Procs : child[p] = NoChild /\ run[p] = NoRun /\ \A t \in purgeTimers : t.by # p}

\* --------------------------------------------------------- ChildProcess.kill
\* "ok": the signal is delivered; "eperm": delivery fails and the handle emits
\* 'error'; "dead": the process has exited, kill() returns false and signals nothing.
KillOutcomes(c) == IF c.alive THEN {"ok", "eperm"} ELSE {"dead"}

kill(c, sig, outcome) ==
    IF outcome = "ok" THEN [c EXCEPT !.signals = @ \cup {sig}] ELSE c

KillCall(p, sig) == [p |-> p, sig |-> sig]

\* an 'error' emitted on a handle without an 'error' listener is thrown
KillThrows(c, outcome) == outcome = "eperm" /\ ~c.listening

\* ------------------------------------------------ exit and error observers
\* line 114
ExitState(how) == IF how = "zero" THEN STOPPED ELSE FAILED

\* child.on('exit'), lines 110-118, of a handle whose listeners closed over name n
OnExitRun(r, n, how) ==
    LET proc == runningProcesses[n]
    IN  IF proc # NoProc THEN [r EXCEPT ![proc].state = ExitState(how)] ELSE r

OnExitTimers(n, p) ==
    IF runningProcesses[n] # NoProc
    THEN purgeTimers \cup {[name |-> n, by |-> p, left |-> GraceDelay]}
    ELSE purgeTimers

\* child.on('error'), lines 120-129
ErrorLine == <<"Error: ", "kill EPERM">>

OnErrorRun(r, n) ==
    LET proc == runningProcesses[n]
    IN  IF proc # NoProc
        THEN [r EXCEPT ![proc].state = FAILED,
                       ![proc].stderr = addToBuffer(@, ErrorLine, MAX_OUTPUT_LINES)]
        ELSE r

OnErrorTimers(n, p) == purgeTimers \cup {[name |-> n, by |-> p, left |-> GraceDelay]}

\* ------------------------------------------------------------------- Init
InitManager ==
    /\ serverUp = TRUE
    /\ runningProcesses = [n \in Names |-> NoProc]
    /\ run = [p \in Procs |-> NoRun]
    /\ child = [p \in Procs |-> NoChild]
    /\ startTimers = {}
    /\ purgeTimers = {}
    /\ killTimers = {}
    /\ spawned = 0
    /\ killCalls = {}
    /\ ret = NoRet
    /\ call = NoCall
    /\ received = <<>>
    /\ exec = NoExec

\* createOutputBuffer, lines 16-22
InitBuffer(max) ==
    /\ buf = <<>>
    /\ bufMax = max
    /\ pushedLines = <<>>

Init == InitManager /\ InitBuffer(MAX_OUTPUT_LINES)

\* the state a step leaves behind
Commit(reg, r, c, st, pt, kt) ==
    /\ runningProcesses' = reg
    /\ startTimers' = st
    /\ purgeTimers' = pt
    /\ killTimers' = kt
    /\ run' = CollectRuns(r, reg, st)
    /\ child' = CollectChildren(c, st)
    /\ UNCHANGED pureVars

Unchanged ==
    UNCHANGED <<runningProcesses, run, child, startTimers, purgeTimers, killTimers, pureVars>>

\* no callback runs while a result is being handed back
Idle == ret = NoRet

\* the step calls kill() on nothing
NoKill == killCalls' = {}

\* ------------------------------------------------------------ startDaemon
\* lines 39-46: the name is taken
AlreadyRunning(n) ==
    Result("start", n, FALSE, "already_running", run[runningProcesses[n]].pid)

StartRejected(n) ==
    /\ Idle /\ serverUp
    /\ has(n)
    /\ ret' = AlreadyRunning(n)
    /\ Unchanged /\ NoKill
    /\ UNCHANGED <<serverUp, spawned>>

\* lines 50-57, 137-143: spawn() throws
StartSpawnThrows(n) ==
    /\ Idle /\ serverUp
    /\ ~has(n)
    /\ ret' = Result("start", n, FALSE, "failed_to_start_daemon", NoProc)
    /\ Unchanged /\ NoKill
    /\ UNCHANGED <<serverUp, spawned>>

\* lines 62-69
NewRun(n, pid) ==
    [name |-> n, pid |-> pid, state |-> STARTING, stdout |-> <<>>, stderr |-> <<>>]

\* lines 50-90: spawn, register as STARTING, suspend for the liveness window
StartSpawn(n) ==
    /\ Idle /\ serverUp
    /\ ~has(n)
    /\ spawned < MaxSpawns
    /\ FreePids # {}
    /\ LET pid == CHOOSE p \in FreePids : \A q \in FreePids : p <= q
       IN  Commit([runningProcesses EXCEPT ![n] = pid],
                  [run EXCEPT ![pid] = NewRun(n, pid)],
                  [child EXCEPT ![pid] = [NoChild EXCEPT !.name = n, !.alive = TRUE]],
                  startTimers \cup {[p |-> pid, left |-> LivenessWindow]},
                  purgeTimers, killTimers)
    /\ spawned' = spawned + 1
    /\ ret' = NoRet /\ NoKill
    /\ UNCHANGED serverUp

\* line 93
ExitedOrKilled(c) == killed(c) \/ exitCodeSet(c)

\* line 97
ErrorOutput(stderr) == IF stderr = <<>> THEN <<<<"Process exited immediately">>>> ELSE stderr

\* lines 92-135: the continuation of startDaemon after the liveness window
StartResume(t) ==
    /\ Idle /\ serverUp
    /\ t \in startTimers
    /\ t.left = 0
    /\ IF ExitedOrKilled(child[t.p])
       THEN /\ Commit(MapDelete(runningProcesses, run[t.p].name), run, child,
                      startTimers \ {t}, purgeTimers, killTimers)
            /\ ret' = [Result("start", run[t.p].name, FALSE, "exited_immediately", t.p)
                          EXCEPT !.err = ErrorOutput(run[t.p].stderr)]
       ELSE /\ Commit(runningProcesses,
                      [run EXCEPT ![t.p].state = RUNNING],
                      [child EXCEPT ![t.p].listening = TRUE],
                      startTimers \ {t}, purgeTimers, killTimers)
            /\ ret' = Result("start", run[t.p].name, TRUE, "started", t.p)
    /\ NoKill
    /\ UNCHANGED <<serverUp, spawned>>

\* -------------------------------------------------------------- stopDaemon
\* variant: stopping an unknown name reports success
StopNotRunningSucceeds(n) == Result("stop", n, TRUE, "stopped", NoProc)

\* lines 151-156
StopNotRunning(n) == Result("stop", n, FALSE, "not_running", NoProc)

\* variant: stopDaemon leaves the entry in the registry
StopKeepsEntry(m, n) == m

\* line 161
StopRemoves(m, n) == MapDelete(m, n)

StopDaemon(n) ==
    /\ Idle /\ serverUp
    /\ IF ~has(n)
       THEN /\ ret' = StopNotRunning(n)
            /\ Unchanged /\ NoKill
       ELSE LET p == runningProcesses[n]
            IN  \E o \in KillOutcomes(child[p]) :
                  /\ killCalls' = {KillCall(p, "SIGTERM")}
                  /\ IF KillThrows(child[p], o)
                     THEN /\ Commit(runningProcesses, run,
                                    [child EXCEPT ![p] = kill(@, "SIGTERM", o)],
                                    startTimers, purgeTimers, killTimers)
                          /\ ret' = Result("stop", n, FALSE, "failed_to_stop", run[p].pid)
                     ELSE /\ Commit(StopRemoves(runningProcesses, n),
                                    IF o = "eperm" THEN OnErrorRun(run, child[p].name) ELSE run,
                                    [child EXCEPT ![p] = kill(@, "SIGTERM", o)],
                                    startTimers,
                                    IF o = "eperm" THEN OnErrorTimers(child[p].name, p)
                                    ELSE purgeTimers,
                                    killTimers)
                          /\ ret' = Result("stop", n, TRUE, "stopped", run[p].pid)
    /\ UNCHANGED <<serverUp, spawned>>

\* ------------------------------------------------------- status and logs
\* `[stderr] ${line}`
StderrPrefixed(line) == <<"[stderr] ">> \o line

MapPrefixed(lines) == [i \in 1..Len(lines) |-> StderrPrefixed(lines[i])]

recentOutputWholeBuffers(r) == r.stdout \o MapPrefixed(r.stderr)

\* ProcessManager.getProcessStatus, lines 194-197
recentOutput(r) ==
    SliceLast(r.stdout, StatusStdoutLines) \o MapPrefixed(SliceLast(r.stderr, StatusStderrLines))

\* ToolExecutor.getProcessStatus over ProcessManager.getProcessStatus
StatusResult(n) ==
    IF ~has(n)
    THEN Result("status", n, FALSE, "not_running", NoProc)
    ELSE LET r == run[runningProcesses[n]]
         IN  [Result("status", n, TRUE, "status", r.pid)
                 EXCEPT !.state = r.state, !.out = recentOutput(r)]

GetProcessStatus(n) ==
    /\ Idle /\ serverUp
    /\ ret' = StatusResult(n)
    /\ Unchanged /\ NoKill
    /\ UNCHANGED <<serverUp, spawned>>

\* executeTool, line 45: args?.lines || 50 (0 stands for an absent or zero argument)
LogArgs == {0, 1}

LinesArg(arg) == IF arg = 0 THEN DefaultLogLines ELSE arg

\* ToolExecutor.getProcessLogs over ProcessManager.getProcessLogs
LogsResult(n, lines) ==
    IF ~has(n)
    THEN Result("logs", n, FALSE, "not_running_or_no_logs", NoProc)
    ELSE LET r == run[runningProcesses[n]]
         IN  [Result("logs", n, TRUE, "logs", r.pid)
                 EXCEPT !.out = SliceLast(r.stdout, lines), !.err = SliceLast(r.stderr, lines)]

GetProcessLogs(n, arg) ==
    /\ Idle /\ serverUp
    /\ ret' = LogsResult(n, LinesArg(arg))
    /\ Unchanged /\ NoKill
    /\ UNCHANGED <<serverUp, spawned>>

\* ------------------------------------------------- child process events
ExitKinds == {"zero", "nonzero", "signal"}

\* the OS process ends; the 'exit' observer runs if the server is up and has
\* attached it (line 110)
ChildExit(p, how) ==
    /\ Idle
    /\ child[p].alive
    /\ LET observed == serverUp /\ child[p].listening
       IN  Commit(runningProcesses,
                  IF observed THEN OnExitRun(run, child[p].name, how) ELSE run,
                  [child EXCEPT ![p].alive = FALSE, ![p].exit = how],
                  startTimers,
                  IF observed THEN OnExitTimers(child[p].name, p) ELSE purgeTimers,
                  killTimers)
    /\ ret' = NoRet /\ NoKill
    /\ UNCHANGED <<serverUp, spawned>>

\* setTimeout(() => this.runningProcesses.delete(name), 5000), lines 116 and 128
PurgeFire(t) ==
    /\ Idle /\ serverUp
    /\ t \in purgeTimers
    /\ t.left = 0
    /\ Commit(MapDelete(runningProcesses, t.name), run, child,
              startTimers, purgeTimers \ {t}, killTimers)
    /\ ret' = NoRet /\ NoKill
    /\ UNCHANGED <<serverUp, spawned>>

\* ---------------------------------------------------------------- cleanup
\* variant: cleanup() skips entries that are not in state Running
CleanupRunningOnly == {n \in Names : has(n) /\ run[runningProcesses[n]].state = RUNNING}

\* the entries cleanup() iterates over, line 242
CleanupTargets == {n \in Names : has(n)}

\* one kill() outcome per entry
CleanupOutcomes ==
    {o \in [Names -> {"ok", "eperm", "dead"}] :
        \A n \in Names : IF has(n)
                         THEN o[n] \in KillOutcomes(child[runningProcesses[n]])
                         ELSE o[n] = "dead"}

\* lines 242-257: the handles after the loop; the try block of an entry whose
\* kill() throws ends there, the loop goes on
CleanupKills(o) ==
    LET target == {runningProcesses[n] : n \in CleanupTargets}
    IN  [p \in Procs |->
            IF p \in target
            THEN [kill(child[p], "SIGTERM", o[run[p].name]) EXCEPT !.listening = FALSE]
            ELSE [child[p] EXCEPT !.listening = FALSE]]

\* lines 248-253: one escalation timer per entry whose kill() returned
CleanupTimers(o) ==
    {[p |-> runningProcesses[n], left |-> EscalationDelay] :
        n \in {m \in CleanupTargets : ~KillThrows(child[runningProcesses[m]], o[m])}}

\* SIGINT / SIGTERM / 'exit' handlers, lines 267-281: cleanup(), then the server
\* process is gone. No callback runs after that: the Map, its objects, the
\* listeners and the start and purge timers go with the process; the escalation
\* deadlines cleanup() has just set are kept only so that the delay can be seen
\* to pass.
ServerShutdown ==
    /\ Idle /\ serverUp
    /\ \E o \in CleanupOutcomes :
         Commit(MapClear(runningProcesses), run, CleanupKills(o), {}, {},
                killTimers \cup CleanupTimers(o))
    /\ killCalls' = {KillCall(runningProcesses[n], "SIGTERM") : n \in CleanupTargets}
    /\ serverUp' = FALSE
    /\ ret' = NoRet
    /\ UNCHANGED spawned

\* lines 52-90 with a launch that fails after spawn() has returned (the working
\* directory is gone, the shell cannot be executed, EAGAIN): the handle has no
\* process and emits 'error' on the next tick, when startDaemon has registered
\* the entry and is suspended at line 90. The 'error' listener is attached at
\* line 120, after the window, so the event has no listener: EventEmitter
\* throws the error, nothing catches it, and Node ends the server process. Its
\* 'exit' handler (lines 279-281) runs cleanup(); the start call never returns.
StartLaunchError(n) ==
    /\ Idle /\ serverUp
    /\ ~has(n)
    /\ spawned < MaxSpawns
    /\ \E o \in CleanupOutcomes :
         Commit(MapClear(runningProcesses), run, CleanupKills(o), {}, {},
                killTimers \cup CleanupTimers(o))
    /\ killCalls' = {KillCall(runningProcesses[m], "SIGTERM") : m \in CleanupTargets}
    /\ serverUp' = FALSE
    /\ spawned' = spawned + 1
    /\ ret' = NoRet

StartDaemon(n) ==
    StartRejected(n) \/ StartSpawnThrows(n) \/ StartSpawn(n) \/ StartLaunchError(n)

\* ------------------------------------------------------------------- time
TimerDue ==
    \/ \E t \in startTimers : t.left = 0
    \/ \E t \in purgeTimers : t.left = 0

Elapse(timers) == {[t EXCEPT !.left = IF @ > 0 THEN @ - 1 ELSE 0] : t \in timers}

\* one second passes
Tick ==
    /\ Idle
    /\ serverUp => ~TimerDue
    /\ startTimers' = Elapse(startTimers)
    /\ purgeTimers' = Elapse(purgeTimers)
    /\ killTimers' = Elapse(killTimers)
    /\ ret' = NoRet /\ NoKill
    /\ UNCHANGED <<serverUp, spawned, runningProcesses, run, child, pureVars>>

\* ------------------------------------------------------------------- spec
\* the result of a call is handed to its caller before the next callback runs
Respond ==
    /\ ret # NoRet
    /\ ret' = NoRet
    /\ Unchanged /\ NoKill
    /\ UNCHANGED <<serverUp, spawned>>

Next ==
    \/ Respond
    \/ \E n \in Names : StartDaemon(n)
    \/ \E t \in startTimers : StartResume(t)
    \/ \E n \in Names : StopDaemon(n)
    \/ \E n \in Names : GetProcessStatus(n)
    \/ \E n \in Names, arg \in LogArgs : GetProcessLogs(n, arg)
    \/ \E p \in Procs, how \in ExitKinds : ChildExit(p, how)
    \/ \E t \in purgeTimers : PurgeFire(t)
    \/ ServerShutdown
    \/ Tick

Spec == Init /\ [][Next]_vars

\* ------------------------------------------------- the output buffer alone
\* bounds of the buffer specification
MaxLines == 3      \* largest small maxLines tried
MaxPush == 5       \* pushes in one run

BufferLines == {<<"x">>, <<"y">>}

\* this.addToBuffer(buffer, line, maxLines), lines 76 and 84
Push(line) ==
    /\ Len(pushedLines) < MaxPush
    /\ buf' = addToBuffer(buf, line, bufMax)
    /\ pushedLines' = Append(pushedLines, line)
    /\ UNCHANGED <<bufMax, call, received, exec, serverUp, spawned, killCalls, ret>>
    /\ UNCHANGED <<runningProcesses, run, child, startTimers, purgeTimers, killTimers>>

InitBufferSpec ==
    /\ InitManager
    /\ \E max \in (1..MaxLines) \cup {MAX_OUTPUT_LINES} : InitBuffer(max)

NextBuffer == \E line \in BufferLines : Push(line)

SpecBuffer == InitBufferSpec /\ [][NextBuffer]_vars

\* ---------------------------------------------------------- captured output
\* What a daemon writes is followed on its own: one daemon is tracked and
\* running, it writes to its two streams, and status and logs are asked for.
MaxStdout == 11
MaxStderr == 6
MaxTail == 3

Newline == "\n"
Whitespace == {" ", "\t", "\r", Newline}

\* String.prototype.split('\n'): the segments between the separators, the empty
\* ones included
RECURSIVE SplitLines(_)
SplitLines(chunk) ==
    IF \A i \in 1..Len(chunk) : chunk[i] # Newline
    THEN <<chunk>>
    ELSE LET i == CHOOSE j \in 1..Len(chunk) :
                      chunk[j] = Newline /\ \A k \in 1..(j - 1) : chunk[k] # Newline
         IN  <<SubSeq(chunk, 1, i - 1)>> \o SplitLines(SubSeq(chunk, i + 1, Len(chunk)))

\* line => line.trim(): a string is truthy when something is left after trimming
NonBlank(line) == \E i \in 1..Len(line) : line[i] \notin Whitespace

\* Buffer.prototype.toString(): the bytes decoded as UTF-8. A chunk is a
\* sequence of pieces, a piece being the bytes of one whole character or
\* Incomplete, bytes that are no whole character where the chunk was cut; each
\* of the latter decodes to U+FFFD.
Incomplete == "\\xE2"
Replacement == "\\uFFFD"

toString(data) == [i \in 1..Len(data) |-> IF data[i] = Incomplete THEN Replacement ELSE data[i]]

\* variant: the blank segments are kept
ChunkLinesKeepsBlank(chunk) == SplitLines(toString(chunk))

\* lines 74 and 82: data.toString().split('\n').filter(line => line.trim())
ChunkLines(chunk) == SelectSeq(SplitLines(toString(chunk)), NonBlank)

\* lines 75-77 and 83-85: lines.forEach(line => addToBuffer(buffer, line))
RECURSIVE PushAll(_, _)
PushAll(buffer, lines) ==
    IF lines = <<>> THEN buffer
    ELSE PushAll(addToBuffer(buffer, Head(lines), MAX_OUTPUT_LINES), Tail(lines))

\* the chunks the daemon may write next on a stream that has delivered k - 1
\* lines: it numbers its lines, so every line of a buffer is told from the others
Chunks(k) ==
    {<<ToString(k), Newline>>,
     <<ToString(k), Newline, ToString(k + 1), Newline>>,
     <<" ", Newline, ToString(k)>>,
     <<Newline>>}

\* child.stdout.on('data'), lines 73-78; the listener closed over the buffer
\* object of its own run
StdoutData(p, chunk) ==
    /\ Idle /\ serverUp
    /\ run[p] # NoRun
    /\ run' = [run EXCEPT ![p].stdout = PushAll(@, ChunkLines(chunk))]
    /\ Len(run'[p].stdout) <= MaxStdout
    /\ ret' = NoRet /\ NoKill
    /\ UNCHANGED <<serverUp, spawned, runningProcesses, child, startTimers,
                   purgeTimers, killTimers, pureVars>>

\* child.stderr.on('data'), lines 81-86
StderrData(p, chunk) ==
    /\ Idle /\ serverUp
    /\ run[p] # NoRun
    /\ run' = [run EXCEPT ![p].stderr = PushAll(@, ChunkLines(chunk))]
    /\ Len(run'[p].stderr) <= MaxStderr
    /\ ret' = NoRet /\ NoKill
    /\ UNCHANGED <<serverUp, spawned, runningProcesses, child, startTimers,
                   purgeTimers, killTimers, pureVars>>

\* the state after start("a") has returned success: StartSpawn("a"), a Tick,
\* StartResume, Respond
InitOutput ==
    /\ serverUp = TRUE
    /\ runningProcesses = [n \in Names |-> IF n = "a" THEN 1 ELSE NoProc]
    /\ run = [p \in Procs |-> IF p = 1 THEN [NewRun("a", 1) EXCEPT !.state = RUNNING]
                                        ELSE NoRun]
    /\ child = [p \in Procs |->
                  IF p = 1
                  THEN [NoChild EXCEPT !.name = "a", !.alive = TRUE, !.listening = TRUE]
                  ELSE NoChild]
    /\ startTimers = {} /\ purgeTimers = {} /\ killTimers = {}
    /\ spawned = 1
    /\ killCalls = {}
    /\ ret = NoRet
    /\ call = NoCall
    /\ received = <<>>
    /\ exec = NoExec
    /\ InitBuffer(MAX_OUTPUT_LINES)

NextOutput ==
    \/ Respond
    \/ \E p \in Procs : \E chunk \in Chunks(Len(run[p].stdout) + 1) : StdoutData(p, chunk)
    \/ \E p \in Procs : \E chunk \in Chunks(Len(run[p].stderr) + 1) : StderrData(p, chunk)
    \/ \E n \in Names : GetProcessStatus(n)
    \/ \E n \in Names, arg \in 0..MaxTail : GetProcessLogs(n, arg)

SpecOutput == InitOutput /\ [][NextOutput]_vars

\* ------------------------------------------------------------ tool dispatch
\* ToolExecutor.executeTool taken alone: which manager operation a tool
\* identifier reaches, and under which registry key. A name is a sequence of
\* pieces: a plain piece, or the text of one of the four control suffixes. No
\* suffix text can straddle two pieces, so a name ends with a suffix when its
\* last piece is that suffix, and the first occurrence of a suffix text is the
\* first piece equal to it.
MaxNameLen == 3

ControlSuffixes == {"_start", "_status", "_stop", "_logs"}
NamePieces == {"x"} \cup ControlSuffixes
DaemonNames == UNION {[1..k -> NamePieces] : k \in 1..MaxNameLen}

\* String.prototype.endsWith
endsWith(s, suffix) == Len(s) > 0 /\ s[Len(s)] = suffix

\* String.prototype.replace(pattern, '') with a string pattern: the first
\* occurrence only
replace(s, pattern) ==
    IF \A i \in 1..Len(s) : s[i] # pattern
    THEN s
    ELSE LET i == CHOOSE j \in 1..Len(s) :
                      s[j] = pattern /\ \A k \in 1..(j - 1) : s[k] # pattern
         IN  SubSeq(s, 1, i - 1) \o SubSeq(s, i + 1, Len(s))

\* `${name}${suffix}`, README lines 84-89; "" is the daemon's own tool
ToolName(n, suffix) == IF suffix = "" THEN n ELSE Append(n, suffix)

Called(n, suffix, op, key) ==
    [daemon |-> n, tool |-> suffix, toolName |-> ToolName(n, suffix), op |-> op, key |-> key]

\* executeTool, lines 25-53: no configuration was found for the tool name
ExecuteControl(n, suffix) ==
    LET toolName == ToolName(n, suffix)
    IN  /\ call' =
             IF endsWith(toolName, "_start")
             THEN Called(n, suffix, "config_not_found", NoKey)
             ELSE IF endsWith(toolName, "_status")
             THEN Called(n, suffix, "status", replace(toolName, "_status"))
             ELSE IF endsWith(toolName, "_stop")
             THEN Called(n, suffix, "stop", replace(toolName, "_stop"))
             ELSE IF endsWith(toolName, "_logs")
             THEN Called(n, suffix, "logs", replace(toolName, "_logs"))
             ELSE Called(n, suffix, "unknown_tool", NoKey)
        /\ UNCHANGED <<serverUp, runningProcesses, run, child, startTimers, purgeTimers,
                       killTimers, spawned, killCalls, ret, bufVars, received, exec>>

\* executeTool, lines 55-66: the tool has the configuration of daemon n
ExecuteConfigured(n, suffix) ==
    LET toolName == ToolName(n, suffix)
        processName == IF endsWith(toolName, "_start") THEN replace(toolName, "_start") ELSE n
    IN  /\ call' = Called(n, suffix, "start", processName)
        /\ UNCHANGED <<serverUp, runningProcesses, run, child, startTimers, purgeTimers,
                       killTimers, spawned, killCalls, ret, bufVars, received, exec>>

InitDispatch == InitManager /\ InitBuffer(MAX_OUTPUT_LINES)

\* the daemon's own tool and its _start tool are listed with the daemon's
\* configuration, the other three control tools have none (lines 24-28, 57)
NextDispatch ==
    \/ \E n \in DaemonNames, suffix \in {"", "_start"} : ExecuteConfigured(n, suffix)
    \/ \E n \in DaemonNames, suffix \in ControlSuffixes \ {"_start"} : ExecuteControl(n, suffix)

SpecDispatch == InitDispatch /\ [][NextDispatch]_vars

\* ------------------------------------------------------------ stream chunks
\* The 'data' listeners taken alone: the running daemon of InitOutput writes
\* arbitrary chunks to its two streams and every chunk is kept beside the
\* buffers.
MaxChars == 4

\* what a chunk is made of
ChunkPieces == {"x", "y", " ", Newline, Incomplete}

\* the chunks of at most k pieces; 'data' is not emitted for an empty read
ChunksUpTo(k) == UNION {[1..m -> ChunkPieces] : m \in 1..k}

RECURSIVE CharsReceived(_)
CharsReceived(rs) == IF rs = <<>> THEN 0 ELSE Len(Head(rs).data) + CharsReceived(Tail(rs))

\* child.stdout.on('data'), lines 73-78, and child.stderr.on('data'), lines 81-86
DataArrives(p, stream, data) ==
    /\ received' = Append(received, [stream |-> stream, data |-> data])
    /\ IF stream = "stdout"
       THEN run' = [run EXCEPT ![p].stdout = PushAll(@, ChunkLines(data))]
       ELSE run' = [run EXCEPT ![p].stderr = PushAll(@, ChunkLines(data))]
    /\ UNCHANGED <<serverUp, spawned, runningProcesses, child, startTimers, purgeTimers,
                   killTimers, killCalls, ret, bufVars, call, exec>>

StdoutChunk(p, data) == run[p] # NoRun /\ DataArrives(p, "stdout", data)

StderrChunk(p, data) == run[p] # NoRun /\ DataArrives(p, "stderr", data)

NextChunk ==
    \/ \E p \in Procs : \E data \in ChunksUpTo(MaxChars - CharsReceived(received)) :
           StdoutChunk(p, data)
    \/ \E p \in Procs : \E data \in ChunksUpTo(MaxChars - CharsReceived(received)) :
           StderrChunk(p, data)

SpecChunk == InitOutput /\ [][NextChunk]_vars

\* -------------------------------------------------------- one-shot commands
\* ToolExecutor.runCommand taken alone. A text is a sequence of pieces, the
\* empty string is <<>>.
MaxCaptured == 2

\* what the command has written when execAsync settles
CapturedTexts == UNION {[1..k -> {"o", "e"}] : k \in 0..MaxCaptured}

\* exit codes, as they are written by a template literal
ExitCodes == {"1", "127"}

\* child_process.exec, promisified: what the await of line 158 gives.
\* how "ok": the command exited with code 0, the promise resolves.
\* how "nonzero": error.code is the exit code.
\* how "signal" and "timeout" (the child is killed after 60 s): exec sets
\*     error.code to the exit code of a process that has none, null.
\* how "launch": the 'error' of the spawn is the rejection, its code is the
\*     system error name and nothing was captured.
ExecOutcomes ==
    {Settled("ok", "0", out, err, <<>>) : out \in CapturedTexts, err \in CapturedTexts}
    \cup {Settled("nonzero", c, t[1], t[2], <<"Command failed: ", "cmd", "\n">> \o t[2]) :
            c \in ExitCodes, t \in CapturedTexts \X CapturedTexts}
    \cup {Settled(h, "null", t[1], t[2], <<"Command failed: ", "cmd", "\n">> \o t[2]) :
            h \in {"signal", "timeout"}, t \in CapturedTexts \X CapturedTexts}
    \cup {Settled("launch", "ENOENT", <<>>, <<>>, <<"spawn /bin/sh ENOENT">>)}

\* `${error.code}`: a number in decimal, null as "null", a string as it is
CodeText(code) == code

\* lines 164-167
SuccessOutput(r) ==
    IF r.stderr # <<>> THEN r.stdout \o <<"\nStderr:\n">> \o r.stderr ELSE r.stdout

\* lines 177-183
PartialOutput(error) ==
    LET fromStdout == IF error.stdout # <<>> THEN error.stdout ELSE <<>>
    IN  IF error.stderr # <<>>
        THEN (IF fromStdout # <<>> THEN fromStdout \o <<"\n">> \o error.stderr
              ELSE error.stderr)
        ELSE fromStdout

\* lines 184-186
FailureOutput(error) ==
    IF error.code # NoCode
    THEN <<"Command failed with exit code ", CodeText(error.code), ":\n">> \o PartialOutput(error)
    ELSE PartialOutput(error)

\* output || fallback
OrElse(output, fallback) == IF output # <<>> THEN output ELSE fallback

\* runCommand, lines 157-171: execAsync resolved
RunSucceeds(r) ==
    /\ Idle /\ serverUp
    /\ r.how = "ok"
    /\ exec' = r
    /\ ret' = [Result("run", "", TRUE, "completed", NoProc)
                  EXCEPT !.out = OrElse(SuccessOutput(r), <<"Command completed successfully">>)]
    /\ UNCHANGED <<serverUp, spawned, runningProcesses, run, child, startTimers, purgeTimers,
                   killTimers, killCalls, bufVars, call, received>>

\* runCommand, lines 172-192: execAsync rejected
RunFails(error) ==
    /\ Idle /\ serverUp
    /\ error.how # "ok"
    /\ exec' = error
    /\ ret' = [Result("run", "", FALSE, "failed", NoProc)
                  EXCEPT !.out = OrElse(FailureOutput(error),
                                        <<"Failed to run command: ">> \o error.message)]
    /\ UNCHANGED <<serverUp, spawned, runningProcesses, run, child, startTimers, purgeTimers,
                   killTimers, killCalls, bufVars, call, received>>

InitRun == InitManager /\ InitBuffer(MAX_OUTPUT_LINES)

NextRun ==
    \/ Respond
    \/ \E r \in ExecOutcomes : RunSucceeds(r)
    \/ \E error \in ExecOutcomes : RunFails(error)

SpecRun == InitRun /\ [][NextRun]_vars

\* ================================================================ claims
\* the registry holds a live entry for n
Live(n) ==
    /\ runningProcesses[n] # NoProc
    /\ run[runningProcesses[n]].state \in {STARTING, RUNNING}

\* a step that spawns a process for name n
Spawns(n) == \E p \in Procs : child[p] = NoChild /\ child'[p].alive /\ child'[p].name = n

\* process p is the registry's entry for the name it was spawned under
Registered(p) == runningProcesses[child[p].name] = p

\* the step calls kill('SIGTERM') on process p
Terminates(p) == KillCall(p, "SIGTERM") \in killCalls'

\* C1: at every reachable state, no two spawned OS processes of the same daemon
\* name are both still unterminated.
C1_AtMostOneLiveRun ==
    \A p, q \in Procs :
        (p # q /\ child[p].alive /\ child[q].alive) => child[p].name # child[q].name

\* C2: whenever start(name) returns success, the registry holds an entry for
\* name, in state Running, whose process is the one this start call spawned.
C2_StartSuccessIsRegistered ==
    (ret.op = "start" /\ ret.success) =>
        /\ runningProcesses[ret.name] = ret.pid
        /\ run[ret.pid].state = RUNNING

\* C3: if the spawned process has terminated (exit code or signal) by the end of
\* the liveness window, start(name) returns failure and the registry holds no
\* entry for name.
C3_ExitInWindowFailsStart ==
    (ret.op = "start" /\ ret.kind \in {"started", "exited_immediately"}
        /\ ~child[ret.pid].alive) =>
        (~ret.success /\ ~has(ret.name))

\* C4: start(name) called while the registry holds a live entry for name returns
\* failure naming the existing entry's PID, spawns no process, and leaves the
\* entry, the rest of the registry, every process and every timer unchanged.
C4_StartOnLiveEntryRejected ==
    [][\A n \in Names :
          Live(n) =>
            /\ ~Spawns(n)
            /\ (ret'.op = "start" /\ ret'.name = n
                    /\ ret'.kind \notin {"started", "exited_immediately"}) =>
                 /\ ~ret'.success
                 /\ ret'.kind = "already_running"
                 /\ ret'.pid = run[runningProcesses[n]].pid
                 /\ killCalls' = {}
                 /\ UNCHANGED <<serverUp, runningProcesses, run, child, startTimers,
                                purgeTimers, killTimers, spawned>>]_vars

C4_Witness ==
    /\ ret.op = "start" /\ ret.kind = "already_running"
    /\ Live(ret.name)
    /\ \E m \in Names \ {ret.name} : has(m)

\* C5: start(name) is rejected as already running only when the entry for name
\* is live (Starting or Running); a terminal entry does not make start fail so.
C5_RejectedOnlyWhenLive ==
    (ret.op = "start" /\ ret.kind = "already_running") => Live(ret.name)

\* C6: a stop(name) that finds an entry calls kill('SIGTERM') on the entry's
\* process and removes the entry before it returns success, whether or not the
\* process has exited; it fails only when the signal could not be sent. From
\* then on status(name) and logs(name) are not-found, until a new start(name)
\* spawns.
C6_StopRemovesSynchronously ==
    [][\A n \in Names :
          /\ (ret'.op = "stop" /\ ret'.name = n /\ ret'.success) =>
               /\ has(n)
               /\ ret'.pid = run[runningProcesses[n]].pid
               /\ Terminates(runningProcesses[n])
               /\ runningProcesses'[n] = NoProc
               /\ ~StatusResult(n)'.success
               /\ \A arg \in LogArgs : ~LogsResult(n, LinesArg(arg))'.success
          /\ (ret'.op = "stop" /\ ret'.name = n /\ ~ret'.success /\ has(n)) =>
               /\ Terminates(runningProcesses[n])
               /\ child'[runningProcesses[n]].alive
               /\ "SIGTERM" \notin child'[runningProcesses[n]].signals
          /\ (~has(n) /\ runningProcesses'[n] # NoProc) => Spawns(n)]_vars

C6_Witness ==
    /\ ret.op = "stop" /\ ret.success
    /\ ~has(ret.name)
    /\ killCalls = {KillCall(ret.pid, "SIGTERM")}
    /\ child[ret.pid].alive /\ child[ret.pid].name = ret.name

\* C7: stop(name), status(name) and logs(name) on a name without a registry
\* entry report failure (stop and status as "not running"), signal no process
\* and change nothing.
C7_NotFoundChangesNothing ==
    [][\A n \in Names :
          (~has(n) /\ ret'.op \in {"stop", "status", "logs"} /\ ret'.name = n) =>
             /\ ~ret'.success
             /\ ret'.op \in {"stop", "status"} => ret'.kind = "not_running"
             /\ ret'.op = "logs" => ret'.kind = "not_running_or_no_logs"
             /\ killCalls' = {}
             /\ UNCHANGED <<serverUp, runningProcesses, run, child, startTimers,
                            purgeTimers, killTimers, spawned>>]_vars

C7_Witness ==
    /\ ret.op = "stop" /\ ret.kind = "not_running"
    /\ killCalls = {}
    /\ \E p \in Procs : child[p].alive /\ child[p].name = ret.name

\* C8: a spawned daemon process that has not terminated leaves the registry,
\* by whatever step (stop, purge, a start's failure path, the shutdown), only
\* if SIGTERM has been delivered to it or that step calls kill('SIGTERM') on
\* it; so at shutdown every running daemon has been sent a termination signal.
C8_NoUnsignalledOrphan ==
    [][\A p \in Procs :
          (/\ serverUp /\ child[p].alive /\ Registered(p)
           /\ child'[p].alive
           /\ ~(serverUp' /\ Registered(p)')) =>
              ("SIGTERM" \in child'[p].signals \/ Terminates(p))]_vars

\* C9: a process that had a registry entry at shutdownAll and is still running
\* when the escalation delay has passed has been sent SIGKILL.
C9_EscalatesToKill ==
    \A t \in killTimers :
        (t.left = 0 /\ child[t.p].alive) => "SIGKILL" \in child[t.p].signals

\* C10: shutdownAll calls kill('SIGTERM') on the process of every entry present
\* when it is called, also when signalling another entry fails, and leaves the
\* registry empty whether or not any process has terminated.
C10_ShutdownSignalsAllAndClears ==
    [][(serverUp /\ ~serverUp') =>
          /\ \A n \in Names : runningProcesses'[n] = NoProc
          /\ \A n \in Names : has(n) => Terminates(runningProcesses[n])]_vars

C10_Witness ==
    /\ ~serverUp
    /\ \E p, q \in Procs :
          /\ p # q
          /\ {KillCall(p, "SIGTERM"), KillCall(q, "SIGTERM")} \subseteq killCalls
          /\ child[p].alive /\ "SIGTERM" \notin child[p].signals
          /\ child[q].alive /\ "SIGTERM" \in child[q].signals

\* the last k elements of s, all of s when it has no more than k
LastLines(s, k) == SubSeq(s, Len(s) - (IF k < Len(s) THEN k ELSE Len(s)) + 1, Len(s))

\* C11: after any sequence of pushes the buffer is no longer than maxLines and
\* holds exactly the last min(n, maxLines) of the n pushed lines, in push order.
C11_BufferKeepsLastLines ==
    /\ Len(buf) <= bufMax
    /\ buf = LastLines(pushedLines, bufMax)

C11_Witness ==
    /\ Len(pushedLines) > bufMax + 1
    /\ Len(buf) = bufMax
    /\ \E i, j \in 1..Len(buf) : buf[i] # buf[j]

\* C12: for every tracked name and every k, k = 0 included, logs(name, k) returns
\* per stream exactly the last min(k, length) lines of the buffer, oldest first,
\* and never more than k lines.
C12_LogsReturnsLastK ==
    \A n \in Names :
        has(n) =>
          \A k \in 0..MaxTail :
              LET r == run[runningProcesses[n]]
                  logs == LogsResult(n, LinesArg(k))
              IN  /\ logs.out = LastLines(r.stdout, k)
                  /\ logs.err = LastLines(r.stderr, k)
                  /\ Len(logs.out) <= k /\ Len(logs.err) <= k

\* C13: for every daemon base name n, names containing _start, _status, _stop or
\* _logs included, the tools n, n_start, n_status, n_stop and n_logs all operate
\* on the registry key n: n and n_start start it, the others ask for its status,
\* stop it and read its logs.
C13_ToolsReachBaseName ==
    call # NoCall =>
        /\ call.key = call.daemon
        /\ call.op = CASE call.tool \in {"", "_start"} -> "start"
                        [] call.tool = "_status" -> "status"
                        [] call.tool = "_stop" -> "stop"
                        [] call.tool = "_logs" -> "logs"

\* C14: the state of an entry only ever changes Starting -> Running,
\* Running -> Stopped or Running -> Failed: a Stopped or Failed entry never
\* becomes Running or Starting again, and no entry goes from Starting to a
\* terminal state.
C14_OnlyLegalTransitions ==
    [][\A p \in Procs :
          (run[p] # NoRun /\ run'[p] # NoRun /\ run'[p].state # run[p].state) =>
              <<run[p].state, run'[p].state>> \in
                  {<<STARTING, RUNNING>>, <<RUNNING, STOPPED>>, <<RUNNING, FAILED>>}]_vars

\* the delayed purge t fires in this step
Fires(t) == t \in purgeTimers /\ t.left = 0 /\ t \notin purgeTimers' /\ serverUp'

\* C16: a delayed purge that fires after the entry of the run that set it has
\* been removed changes nothing, also when a later run of the same name owns
\* the entry of that name by then.
C16_LatePurgeIsNoOp ==
    [][\A t \in purgeTimers :
          (Fires(t) /\ runningProcesses[t.name] # t.by) =>
              UNCHANGED <<runningProcesses, run>>]_vars

\* the 'exit' listener of the run of process p runs in this step
ExitObserved(p) == serverUp /\ child[p].alive /\ child[p].listening /\ ~child'[p].alive

\* C18: the 'exit' and 'error' observers of a run, and the purge they arm, only
\* change or remove the entry of that same run, never the entry of a later run.
C18_ObserversTouchOwnRunOnly ==
    [][/\ \A p \in Procs :
             ExitObserved(p) =>
                 \A q \in Procs \ {p} : run[q] # NoRun => run'[q] = run[q]
       /\ \A t \in purgeTimers :
             Fires(t) =>
                 \A n \in Names :
                     runningProcesses[n] # t.by => runningProcesses'[n] = runningProcesses[n]]_vars

\* C15: when the process of a tracked daemon has terminated and neither stop nor
\* shutdownAll has removed the entry, the entry is Stopped or Failed and its
\* purge is pending, so that it is removed once the grace delay has passed: no
\* entry of a terminated process stays for ever. (The entry of a start that is
\* still inside its liveness window is left to that start.)
C15_TerminatedEntryIsPurged ==
    serverUp =>
        \A n \in Names :
            LET p == runningProcesses[n]
            IN  (p # NoProc /\ ~child[p].alive /\ \A t \in startTimers : t.p # p) =>
                    /\ run[p].state \in {STOPPED, FAILED}
                    /\ \E t \in purgeTimers : t.name = n

\* spawn() was called in this step and no process came of it
LaunchFailed ==
    /\ spawned' = spawned + 1
    /\ \A p \in Procs : child'[p].alive => child[p].alive

\* C17: a launch error reported after spawn() has returned, inside the liveness
\* window included, is handled as a spawn failure: the server goes on, start
\* does not return success, and the entry is Failed with the error text in its
\* stderr buffer and is purged after the grace delay.
C17_LaunchErrorIsSpawnFailure ==
    [][LaunchFailed =>
          /\ serverUp'
          /\ ~ret'.success
          /\ \E n \in Names :
                /\ ~has(n) /\ runningProcesses'[n] # NoProc
                /\ run'[runningProcesses'[n]].state = FAILED
                /\ run'[runningProcesses'[n]].stderr # <<>>
                /\ \E t \in purgeTimers' : t.name = n]_vars

\* stop(n) is served in this step and its kill('SIGTERM') does not reach the
\* live process of the entry
StopSignalFails(n) ==
    LET p == runningProcesses[n]
    IN  /\ ret'.op = "stop" /\ ret'.name = n
        /\ p # NoProc
        /\ child[p].alive
        /\ killCalls' = {KillCall(p, "SIGTERM")}
        /\ "SIGTERM" \notin child'[p].signals

\* C19: when sending the termination signal fails inside stop(name), stop
\* returns a failure instead of raising, the entry stays as it was, and the
\* server goes on serving calls.
C19_FailedSignalFailsStop ==
    [][\A n \in Names :
          StopSignalFails(n) =>
              /\ ~ret'.success
              /\ serverUp'
              /\ runningProcesses'[n] = runningProcesses[n]
              /\ run'[runningProcesses[n]] = run[runningProcesses[n]]]_vars

\* C20: status(name) of a tracked name returns as recent output exactly the last
\* min(10, length) stdout lines followed by the last min(5, length) stderr
\* lines, each of these behind the prefix "[stderr] ": never more than 15
\* lines; and it leaves the buffers and the registry as they were.
C20_StatusRecentOutput ==
    [][\A n \in Names :
          (ret'.op = "status" /\ ret'.name = n /\ has(n)) =>
              LET r == run[runningProcesses[n]]
                  lastOut == LastLines(r.stdout, 10)
                  lastErr == LastLines(r.stderr, 5)
              IN  /\ ret'.success
                  /\ ret'.out = lastOut \o [i \in 1..Len(lastErr) |-> <<"[stderr] ">> \o lastErr[i]]
                  /\ Len(ret'.out) <= 15
                  /\ UNCHANGED <<runningProcesses, run>>]_vars

C20_Witness ==
    /\ ret.op = "status" /\ ret.success
    /\ Len(run[runningProcesses[ret.name]].stdout) > 10
    /\ Len(run[runningProcesses[ret.name]].stderr) > 5
    /\ Len(ret.out) = 15

Range(f) == {f[i] : i \in DOMAIN f}

\* the segments of text between its line separators that hold something else
\* than white space, first to last
SegmentStart(text, e) ==
    LET before == {j \in 1..(e - 1) : text[j] = Newline}
    IN  IF before = {} THEN 1 ELSE 1 + CHOOSE j \in before : \A k \in before : k <= j

Segment(text, e) == SubSeq(text, SegmentStart(text, e), e - 1)

KeptEnds(text) ==
    {e \in 1..(Len(text) + 1) :
        /\ e = Len(text) + 1 \/ text[e] = Newline
        /\ \E i \in SegmentStart(text, e)..(e - 1) : text[i] \notin {" ", "\t", "\r"}}

KeptSegments(text) ==
    [i \in 1..Cardinality(KeptEnds(text)) |->
        Segment(text, CHOOSE e \in KeptEnds(text) :
                          Cardinality({d \in KeptEnds(text) : d < e}) = i - 1)]

\* the lines the chunks received on a stream hold, chunk after chunk
RECURSIVE LinesOf(_, _)
LinesOf(rs, stream) ==
    IF rs = <<>> THEN <<>>
    ELSE (IF Head(rs).stream = stream THEN KeptSegments(toString(Head(rs).data)) ELSE <<>>)
             \o LinesOf(Tail(rs), stream)

\* C21: every raw chunk of a daemon's stdout or stderr is split at the line
\* separators and exactly its segments that are neither empty nor white space
\* only are pushed, in order, to the buffer of the same stream; a line cut by
\* the end of a chunk is stored as two lines; and no buffer ever holds an empty
\* or white-space-only line from stream data.
C21_ChunksSplitAndFiltered ==
    \A n \in Names :
        has(n) =>
            LET r == run[runningProcesses[n]]
            IN  /\ r.stdout = LinesOf(received, "stdout")
                /\ r.stderr = LinesOf(received, "stderr")
                /\ \A line \in Range(r.stdout) \cup Range(r.stderr) :
                       \E i \in 1..Len(line) : line[i] \notin {" ", "\t", "\r", Newline}

\* a line cut in two by the end of a chunk, and a blank segment dropped
C21_Witness ==
    /\ Len(received) = 2
    /\ received[1].stream = "stdout" /\ received[2].stream = "stdout"
    /\ received[1].data = <<"x">>
    /\ received[2].data = <<"y", Newline, " ">>
    /\ run[1].stdout = <<<<"x">>, <<"y">>>>
    /\ run[1].stderr = <<>>

\* what was captured of the two streams, stderr under stdout
Captured(e) ==
    IF e.stdout # <<>> /\ e.stderr # <<>> THEN e.stdout \o <<"\n">> \o e.stderr
    ELSE e.stdout \o e.stderr

\* C22: when a one-shot command fails (non-zero exit, signal, timeout or launch
\* error), run returns success = false; its output is built from the captured
\* partial stdout and stderr, behind the exit code only when an exit code is
\* known, and is the error text when nothing was captured.
C22_FailedRunOutput ==
    (ret.op = "run" /\ exec.how \in {"nonzero", "signal", "timeout", "launch"}) =>
        /\ ~ret.success
        /\ IF Captured(exec) = <<>>
           THEN ret.out \in {exec.message, <<"Failed to run command: ">> \o exec.message}
           ELSE IF exec.how = "nonzero"
           THEN ret.out = <<"Command failed with exit code ", exec.code, ":\n">> \o Captured(exec)
           ELSE ret.out = Captured(exec)

====
